---- MODULE Spec2Model ----
(***************************************************************************)
(* Model of src/Invoices/utilities.py: create_invoice_summary_tables, the  *)
(* function that flattens (parse_result, extract_result) pairs into the    *)
(* four row tables MARKDOWN, PARSED_CHUNKS, INVOICES_MAIN and              *)
(* INVOICE_LINE_ITEMS (specification Spec), and parse_extract_save, the    *)
(* function that parses a document, extracts from its markdown and saves   *)
(* both results as JSON files (specification SpecSave).                    *)
(*                                                                         *)
(* Python values are tagged records:                                       *)
(*   None            [t |-> "none"]                                        *)
(*   str / int       [t |-> "str", v |-> s]   [t |-> "int", v |-> n]       *)
(*   str(uuid4())    [t |-> "uuid", v |-> n]  the n-th identifier drawn    *)
(*   object          [t |-> "obj", a |-> f]   f: attribute name -> value   *)
(*   dict            [t |-> "dict", a |-> f]  f: key -> value              *)
(*   list / tuple    [t |-> "list", e |-> s]  [t |-> "tuple", e |-> s]     *)
(* An attribute or key is present exactly when it is in DOMAIN f.          *)
(***************************************************************************)
EXTENDS Integers, Sequences, FiniteSets, TLC

\* ------------------------------------------------------------------ bounds
MaxDocs == 2
MaxChunks == 2
MaxItems == 2
MaxCalls == 2
MaxSaves == 2

\* ------------------------------------------------------------ Python values
None == [t |-> "none"]
PyStr(s) == [t |-> "str", v |-> s]
PyInt(n) == [t |-> "int", v |-> n]
PyObj(f) == [t |-> "obj", a |-> f]
PyDict(f) == [t |-> "dict", a |-> f]
PyList(s) == [t |-> "list", e |-> s]
PyTuple(s) == [t |-> "tuple", e |-> s]
NoAttrs == [x \in {} |-> None]

\* hasattr(o, name) for the attribute names the function reads: only the
\* response objects carry them, no builtin value does.
HasAttr(o, name) == o.t = "obj" /\ name \in DOMAIN o.a

\* o.name, evaluated only where HasAttr(o, name) holds.
GetAttr(o, name) == o.a[name]

\* getattr(o, name, None)
GetAttrOrNone(o, name) == IF HasAttr(o, name) THEN o.a[name] ELSE None

\* isinstance(v, dict), isinstance(v, list)
IsDict(v) == v.t = "dict"
IsList(v) == v.t = "list"

\* bool(v): None, 0, "", and empty containers are false; objects are true.
Truthy(v) ==
    CASE v.t = "none" -> FALSE
      [] v.t = "int" -> v.v # 0
      [] v.t = "str" -> v.v # ""
      [] v.t = "list" -> v.e # <<>>
      [] v.t = "tuple" -> v.e # <<>>
      [] v.t = "dict" -> DOMAIN v.a # {}
      [] OTHER -> TRUE

\* iter(v) succeeds for lists, tuples, dicts and strings; None, numbers and
\* the response objects are not iterable (TypeError).
Iterable(v) == v.t \in {"list", "tuple", "dict", "str"}

\* d.get(key) on a dict
DictGet(d, key) == IF key \in DOMAIN d.a THEN d.a[key] ELSE None

\* str(uuid.uuid4()): the n-th identifier drawn from the generator.
Uuid4(n) == [t |-> "uuid", v |-> n]

\* ------------------------------------------------- create_invoice_summary_tables
\* Mutants of list.append: the list is reset on each append; the row is put in front.
ListAppendOverwrite(rows, row) == <<row>>
ListPrepend(rows, row) == <<row>> \o rows

\* list.append(row): the row goes to the end of the accumulated list.
ListAppend(rows, row) == Append(rows, row)

\* Mutant: one test, for the filename, decides both fallbacks.
MetadataFieldCoupled(metadata, name) ==
    IF HasAttr(metadata, "filename") /\ HasAttr(metadata, name)
    THEN GetAttr(metadata, name) ELSE PyStr("unknown")

\* `parse_result.metadata.X if hasattr(parse_result.metadata, 'X') else 'unknown'`
MetadataField(metadata, name) ==
    IF HasAttr(metadata, name) THEN GetAttr(metadata, name) ELSE PyStr("unknown")

\* Mutant: the MARKDOWN row carries an identifier of its own document as RUN_ID.
MarkdownRowOwnRun(runId, invoiceUuid, documentName, version, parseResult) ==
    [RUN_ID |-> invoiceUuid,
     INVOICE_UUID |-> invoiceUuid,
     DOCUMENT_NAME |-> documentName,
     AGENTIC_DOC_VERSION |-> version,
     MARKDOWN |-> GetAttr(parseResult, "markdown")]

\* The MARKDOWN row of one document.
MarkdownRow(runId, invoiceUuid, documentName, version, parseResult) ==
    [RUN_ID |-> runId,
     INVOICE_UUID |-> invoiceUuid,
     DOCUMENT_NAME |-> documentName,
     AGENTIC_DOC_VERSION |-> version,
     MARKDOWN |-> GetAttr(parseResult, "markdown")]

\* `grounding = chunk.grounding if hasattr(chunk, 'grounding') else None`
ChunkGrounding(chunk) ==
    IF HasAttr(chunk, "grounding") THEN GetAttr(chunk, "grounding") ELSE None

\* `grounding.X if grounding and hasattr(grounding, 'X') else None`, X = box, page
GroundingField(grounding, name) ==
    IF Truthy(grounding) /\ HasAttr(grounding, name)
    THEN GetAttr(grounding, name) ELSE None

\* Mutant: the coordinate itself is tested for truth, so 0 is lost.
BoxCoordTruthy(box, name) ==
    IF Truthy(box) /\ HasAttr(box, name) /\ Truthy(GetAttr(box, name))
    THEN GetAttr(box, name) ELSE None

\* `box.X if box and hasattr(box, 'X') else None`, X = left, top, right, bottom
BoxCoord(box, name) ==
    IF Truthy(box) /\ HasAttr(box, name) THEN GetAttr(box, name) ELSE None

\* `chunk.X if hasattr(chunk, 'X') else default`, X = id, type, markdown
ChunkField(chunk, name, default) ==
    IF HasAttr(chunk, name) THEN GetAttr(chunk, name) ELSE default

\* The PARSED_CHUNKS row of one chunk.
ChunkRow(runId, invoiceUuid, documentName, chunk) ==
    LET grounding == ChunkGrounding(chunk)
        box == GroundingField(grounding, "box")
        page == GroundingField(grounding, "page")
        text == ChunkField(chunk, "markdown", PyStr(""))
    IN [RUN_ID |-> runId,
        INVOICE_UUID |-> invoiceUuid,
        DOCUMENT_NAME |-> documentName,
        chunk_id |-> ChunkField(chunk, "id", None),
        chunk_type |-> ChunkField(chunk, "type", None),
        text |-> text,
        page |-> page,
        box_l |-> BoxCoord(box, "left"),
        box_t |-> BoxCoord(box, "top"),
        box_r |-> BoxCoord(box, "right"),
        box_b |-> BoxCoord(box, "bottom")]

\* `for chunk in parse_result.chunks: chunks_rows.append({...})`
RECURSIVE ChunkLoop(_, _, _, _, _)
ChunkLoop(rows, chunks, runId, invoiceUuid, documentName) ==
    IF chunks = <<>> THEN rows
    ELSE ChunkLoop(ListAppend(rows, ChunkRow(runId, invoiceUuid, documentName, Head(chunks))),
                   Tail(chunks), runId, invoiceUuid, documentName)

\* `extract_result.extraction if hasattr(extract_result, 'extraction') else {}`
Extraction(extractResult) ==
    IF HasAttr(extractResult, "extraction")
    THEN GetAttr(extractResult, "extraction") ELSE PyDict(NoAttrs)

\* Mutant: a missing key gives an empty dict (d.get(key, {})) instead of None.
RECURSIVE safe_get_or_empty(_, _)
safe_get_or_empty(d, keys) ==
    IF keys = <<>> THEN d
    ELSE IF IsDict(d)
         THEN IF Head(keys) \in DOMAIN d.a
              THEN safe_get_or_empty(d.a[Head(keys)], Tail(keys))
              ELSE PyDict(NoAttrs)
         ELSE None

\* safe_get(d, *keys): walk the keys; anything that is not a dict holding the
\* key ends the walk with None.
RECURSIVE safe_get(_, _)
safe_get(d, keys) ==
    IF keys = <<>> THEN d
    ELSE IF IsDict(d) /\ Head(keys) \in DOMAIN d.a
         THEN safe_get(d.a[Head(keys)], Tail(keys))
         ELSE None

\* The INVOICES_MAIN row of one document: the four identifying columns and
\* the 27 flattened header columns, each safe_get(extraction, group, field).
main_data(runId, invoiceUuid, documentName, version, extraction) ==
    [RUN_ID |-> runId,
     INVOICE_UUID |-> invoiceUuid,
     DOCUMENT_NAME |-> documentName,
     AGENTIC_DOC_VERSION |-> version,
     INVOICE_DATE_RAW |-> safe_get(extraction, <<"invoice_info", "invoice_date_raw">>),
     INVOICE_DATE |-> safe_get(extraction, <<"invoice_info", "invoice_date">>),
     INVOICE_NUMBER |-> safe_get(extraction, <<"invoice_info", "invoice_number">>),
     ORDER_DATE |-> safe_get(extraction, <<"invoice_info", "order_date">>),
     PO_NUMBER |-> safe_get(extraction, <<"invoice_info", "po_number">>),
     STATUS |-> safe_get(extraction, <<"invoice_info", "status">>),
     SOLD_TO_NAME |-> safe_get(extraction, <<"customer_info", "sold_to_name">>),
     SOLD_TO_ADDRESS |-> safe_get(extraction, <<"customer_info", "sold_to_address">>),
     CUSTOMER_EMAIL |-> safe_get(extraction, <<"customer_info", "customer_email">>),
     SUPPLIER_NAME |-> safe_get(extraction, <<"company_info", "supplier_name">>),
     SUPPLIER_ADDRESS |-> safe_get(extraction, <<"company_info", "supplier_address">>),
     REPRESENTATIVE |-> safe_get(extraction, <<"company_info", "representative">>),
     EMAIL |-> safe_get(extraction, <<"company_info", "email">>),
     PHONE |-> safe_get(extraction, <<"company_info", "phone">>),
     GSTIN |-> safe_get(extraction, <<"company_info", "gstin">>),
     PAN |-> safe_get(extraction, <<"company_info", "pan">>),
     PAYMENT_TERMS |-> safe_get(extraction, <<"order_details", "payment_terms">>),
     SHIP_VIA |-> safe_get(extraction, <<"order_details", "ship_via">>),
     SHIP_DATE |-> safe_get(extraction, <<"order_details", "ship_date">>),
     TRACKING_NUMBER |-> safe_get(extraction, <<"order_details", "tracking_number">>),
     CURRENCY |-> safe_get(extraction, <<"totals_summary", "currency">>),
     TOTAL_DUE_RAW |-> safe_get(extraction, <<"totals_summary", "total_due_raw">>),
     TOTAL_DUE |-> safe_get(extraction, <<"totals_summary", "total_due">>),
     SUBTOTAL |-> safe_get(extraction, <<"totals_summary", "subtotal">>),
     TAX |-> safe_get(extraction, <<"totals_summary", "tax">>),
     SHIPPING |-> safe_get(extraction, <<"totals_summary", "shipping">>),
     HANDLING_FEE |-> safe_get(extraction, <<"totals_summary", "handling_fee">>)]

\* `line_items = safe_get(extraction, 'line_items') or []`
LineItems(extraction) ==
    LET v == safe_get(extraction, <<"line_items">>)
    IN IF Truthy(v) THEN v ELSE PyList(<<>>)

\* Mutant: only mappings are read; an object item gives None.
ItemFieldDictOnly(item, name) ==
    IF IsDict(item) THEN DictGet(item, name) ELSE None

\* `item.get(X) if isinstance(item, dict) else getattr(item, X, None)`
ItemField(item, name) ==
    IF IsDict(item) THEN DictGet(item, name) ELSE GetAttrOrNone(item, name)

\* The INVOICE_LINE_ITEMS row of one line item.
LineItemRow(runId, invoiceUuid, documentName, version, idx, item) ==
    [RUN_ID |-> runId,
     INVOICE_UUID |-> invoiceUuid,
     DOCUMENT_NAME |-> documentName,
     AGENTIC_DOC_VERSION |-> version,
     LINE_INDEX |-> PyInt(idx),
     LINE_NUMBER |-> ItemField(item, "line_number"),
     SKU |-> ItemField(item, "sku"),
     DESCRIPTION |-> ItemField(item, "description"),
     QUANTITY |-> ItemField(item, "quantity"),
     UNIT_PRICE |-> ItemField(item, "unit_price"),
     PRICE |-> ItemField(item, "price"),
     AMOUNT |-> ItemField(item, "amount"),
     TOTAL |-> ItemField(item, "total")]

\* `for idx, item in enumerate(line_items): line_items_rows.append({...})`
RECURSIVE LineItemLoop(_, _, _, _, _, _, _)
LineItemLoop(rows, items, idx, runId, invoiceUuid, documentName, version) ==
    IF items = <<>> THEN rows
    ELSE LineItemLoop(
           ListAppend(rows, LineItemRow(runId, invoiceUuid, documentName, version,
                                        idx, Head(items))),
           Tail(items), idx + 1, runId, invoiceUuid, documentName, version)

\* pd.DataFrame(rows): one table row per accumulated dict, in list order.
DataFrame(rows) == [nrows |-> Len(rows), data |-> rows]

\* ---------------------------------------------------------------- the call
VARIABLES
    pc,                 \* "idle" | "loop" | "done" | "raised"
    args,               \* the arguments of the running call: results, extract_result, run_id
    run_id,             \* the local run_id after lines 265-266
    results_list,       \* the list of pairs the loop walks
    doc_idx,            \* number of loop iterations completed
    markdown_rows,
    chunks_rows,
    main_rows,
    line_items_rows,
    invoice_summaries,  \* the returned list of four tables, or NoValue
    exc,                \* the exception that left the call, or "none"
    issued,             \* number of uuid.uuid4() identifiers drawn so far
    pastMax,            \* every INVOICE_UUID returned by an earlier call is one of
                        \* the first pastMax identifiers drawn
    calls               \* number of calls made

tableVars == <<pc, args, run_id, results_list, doc_idx, markdown_rows, chunks_rows,
               main_rows, line_items_rows, invoice_summaries, exc, issued, pastMax, calls>>

\* The state of parse_extract_save and of the file system it writes to.
VARIABLES
    save_pc,            \* "idle", the step about to run (see StepOrder),
                        \* "returned" or "raised"
    save_args,          \* document_path, schema_class, output_dir of the running call
    parse_result,       \* the local parse_result
    json_schema,        \* the local json_schema
    extract_result,     \* the local extract_result
    save_ret,           \* the returned tuple, or NoValue
    save_exc,           \* the exception that left the call and the step that
                        \* raised it, or NoExc
    steps,              \* what the call has done so far to the file system and
                        \* to the client, in order
    output_dir_exists,  \* the output directory is there
    files,              \* the files of the output directory: name -> text
    entry,              \* the output directory as the running call found it
    saves               \* number of calls made

saveVars == <<save_pc, save_args, parse_result, json_schema, extract_result, save_ret,
              save_exc, steps, output_dir_exists, files, entry, saves>>

vars == <<tableVars, saveVars>>

NoValue == [t |-> "unbound"]
NoArgs == [results |-> NoValue, extract_result |-> NoValue, run_id |-> NoValue]

\* The elements a `for` loop sees.  Lists and tuples give their elements; a
\* dict gives its keys and a str its characters, modelled for at most one
\* key and at most one character.
Elems(v) ==
    CASE v.t \in {"list", "tuple"} -> v.e
      [] v.t = "dict" -> IF DOMAIN v.a = {} THEN <<>>
                         ELSE <<PyStr(CHOOSE k \in DOMAIN v.a : TRUE)>>
      [] v.t = "str" -> IF v.v = "" THEN <<>> ELSE <<v>>
      [] OTHER -> <<>>

\* Mutant: any sequence of pairs, list or tuple, selects batch mode.
IsBatchAnySequence(results) == results.t \in {"list", "tuple"}

\* Lines 254-262: `isinstance(results, list)` selects batch mode; otherwise
\* the pair (results, extract_result) is the only document.
IsBatch(results) == IsList(results)

\* Mutant: the check of extract_result is left out.
MissingExtractNever(results, extractResult) == FALSE

\* Lines 260-261: single document mode needs extract_result.
MissingExtract(results, extractResult) ==
    ~IsBatch(results) /\ extractResult = None

ResultsList(results, extractResult) ==
    IF IsBatch(results) THEN results.e
    ELSE <<PyTuple(<<results, extractResult>>)>>

\* Lines 265-266: the run identifier is the caller's, or one drawn here.
RunId(runIdArg, n) == IF runIdArg = None THEN Uuid4(n + 1) ELSE runIdArg

\* Mutant: a generator that yields the same identifier each time.
InvoiceUuidFixed(n) == Uuid4(1)

\* Line 277: the identifier of one document, drawn inside the loop.
InvoiceUuid(n) == Uuid4(n + 1)

\* Lines 275-401, one iteration of the loop for the pair (parseResult,
\* extractResult): the four row lists after it, and the exception that ended
\* it ("none" when the iteration completed).  The rows appended before a
\* raise stay appended.
LoopBody(parseResult, extractResult, runId, invoiceUuid, md, ch, mn, li) ==
    LET out(e, m, c, n, l) ==
            [exc |-> e, markdown_rows |-> m, chunks_rows |-> c,
             main_rows |-> n, line_items_rows |-> l]
    IN
    IF ~HasAttr(parseResult, "metadata") THEN out("AttributeError", md, ch, mn, li)
    ELSE
    LET metadata == GetAttr(parseResult, "metadata")
        document_name == MetadataField(metadata, "filename")
        agentic_doc_version == MetadataField(metadata, "version")
    IN
    IF ~HasAttr(parseResult, "markdown") THEN out("AttributeError", md, ch, mn, li)
    ELSE
    LET md1 == ListAppend(md, MarkdownRow(runId, invoiceUuid, document_name,
                                          agentic_doc_version, parseResult))
    IN
    IF ~HasAttr(parseResult, "chunks") THEN out("AttributeError", md1, ch, mn, li)
    ELSE IF ~Iterable(GetAttr(parseResult, "chunks")) THEN out("TypeError", md1, ch, mn, li)
    ELSE
    LET ch1 == ChunkLoop(ch, Elems(GetAttr(parseResult, "chunks")),
                         runId, invoiceUuid, document_name)
        extraction == Extraction(extractResult)
        mn1 == ListAppend(mn, main_data(runId, invoiceUuid, document_name,
                                        agentic_doc_version, extraction))
        line_items == LineItems(extraction)
    IN
    IF ~Iterable(line_items) THEN out("TypeError", md1, ch1, mn1, li)
    ELSE out("none", md1, ch1, mn1,
             LineItemLoop(li, Elems(line_items), 0, runId, invoiceUuid,
                          document_name, agentic_doc_version))

\* ------------------------------------------------------------- the inputs
\* The responses a caller can pass.  A few "core" documents, which differ in
\* their numbers of chunks and line items, fill the batches of several
\* documents; every other response shape is passed as a batch of one.
Restrict(f, S) == [x \in S |-> f[x]]
WithNone(f, S) == [x \in DOMAIN f |-> IF x \in S THEN f[x] ELSE None]

BoxNames == {"left", "top", "right", "bottom"}
FullBox == [left |-> PyInt(0), top |-> PyInt(3), right |-> PyInt(5), bottom |-> PyInt(8)]

\* Boxes with any subset of the coordinates set; an unset coordinate is either
\* a missing attribute or an attribute holding None.
Boxes ==
    {PyObj(Restrict(FullBox, S)) : S \in SUBSET BoxNames}
    \cup {PyObj(WithNone(FullBox, S)) : S \in SUBSET BoxNames}

Groundings ==
    {None, PyObj(NoAttrs), PyObj([page |-> PyInt(1)]),
     PyObj([page |-> PyInt(0), box |-> None]),
     PyObj([page |-> None, box |-> PyObj(FullBox)])}
    \cup {PyObj([page |-> PyInt(2), box |-> b]) : b \in Boxes}
    \cup {PyObj([box |-> b]) : b \in Boxes}

ProbeChunks ==
    {PyObj([id |-> PyStr("p0"), type |-> PyStr("text"), markdown |-> PyStr("probe"),
            grounding |-> g]) : g \in Groundings}
    \cup {PyObj([id |-> PyStr("p1"), type |-> PyStr("table"), markdown |-> PyStr("bare")]),
          PyObj([grounding |-> PyObj([page |-> PyInt(4), box |-> PyObj(FullBox)])]),
          PyObj(NoAttrs), None}

\* The chunk at position k (1-based) of a core document.
CoreChunk(k) ==
    LET id == PyStr("c" \o ToString(k))
        md == PyStr("text " \o ToString(k))
    IN CASE k % 3 = 1 -> PyObj([id |-> id, type |-> PyStr("text"), markdown |-> md,
                                grounding |-> PyObj([page |-> PyInt(k), box |-> PyObj(FullBox)])])
         [] k % 3 = 2 -> PyObj([id |-> id, type |-> PyStr("table"), markdown |-> md,
                                grounding |-> None])
         [] OTHER -> PyObj([id |-> id, markdown |-> md])

ItemNames == {"line_number", "sku", "description", "quantity",
              "unit_price", "price", "amount", "total"}
FullItem == [line_number |-> PyInt(0), sku |-> PyStr("A1"), description |-> PyStr("widget"),
             quantity |-> PyInt(3), unit_price |-> PyInt(25), price |-> PyInt(75),
             amount |-> PyInt(80), total |-> PyInt(85)]
ItemSubsets ==
    {S \in SUBSET ItemNames :
        Cardinality(S) <= 1 \/ Cardinality(S) >= 7 \/ S = {"sku", "quantity"}}

ProbeItems ==
    {PyDict(Restrict(FullItem, S)) : S \in ItemSubsets}
    \cup {PyObj(Restrict(FullItem, S)) : S \in ItemSubsets}
    \cup {PyDict(WithNone(FullItem, {"sku"})), PyObj(WithNone(FullItem, {"sku"})),
          None, PyStr("x")}

\* The line item at position k (1-based) of a core document: mappings and
\* objects alternate.
CoreItem(k) ==
    LET f == [sku |-> PyStr("A" \o ToString(k)), quantity |-> PyInt(2 * k + 1)]
    IN IF k % 2 = 1 THEN PyDict(f) ELSE PyObj(f)

\* The group and field names the header lookups use.
Groups == {"invoice_info", "customer_info", "company_info", "order_details", "totals_summary"}
Fields ==
    {"invoice_date_raw", "invoice_date", "invoice_number", "order_date", "po_number",
     "status", "sold_to_name", "sold_to_address", "customer_email", "supplier_name",
     "supplier_address", "representative", "email", "phone", "gstin",
     "pan", "payment_terms", "ship_via", "ship_date", "tracking_number",
     "currency", "total_due_raw", "total_due", "subtotal", "tax",
     "shipping", "handling_fee"}

\* Every group holding every field name, each with a value of its own.
SaturatedExtraction ==
    PyDict([g \in Groups |-> PyDict([f \in Fields |-> PyStr(g \o "." \o f)])])

ProbeExtractions ==
    {PyDict([x \in {g} |-> PyDict([y \in {f} |-> PyStr(f)])]) : g \in Groups, f \in Fields}
    \cup {PyDict([x \in {g} |-> v]) :
            g \in Groups,
            v \in {None, PyStr("text"), PyDict(NoAttrs),
                   PyObj([invoice_number |-> PyStr("attr")])}}
    \cup {PyDict([invoice_info |-> PyDict([invoice_number |-> v])]) :
            v \in {None, PyInt(0), PyStr(""), PyList(<<PyInt(1)>>), PyStr("INV-001")}}
    \cup {SaturatedExtraction, PyDict(NoAttrs), None, PyStr("raw"), PyList(<<>>),
          PyObj([invoice_info |-> PyDict([invoice_number |-> PyStr("attr")])])}
    \cup {PyDict([line_items |-> v]) :
            v \in {None, PyInt(0), PyInt(5), PyList(<<>>), PyDict(NoAttrs),
                   PyDict([k |-> None]), PyStr("x"), PyTuple(<<CoreItem(1)>>)}}
    \cup {PyDict([line_items |-> PyList(<<it>>)]) : it \in ProbeItems}

ProbeExtracts ==
    {PyObj([extraction |-> x]) : x \in ProbeExtractions}
    \cup {PyObj(NoAttrs), None}

CoreMetadata(name) == PyObj([filename |-> PyStr(name), version |-> PyStr("v1")])

ParseResult(metadata, markdown, chunks) ==
    PyObj([metadata |-> metadata, markdown |-> markdown, chunks |-> chunks])

\* The core document with nc chunks and ni line items.
CoreParse(nc, ni) ==
    ParseResult(CoreMetadata("doc-" \o ToString(nc) \o "-" \o ToString(ni) \o ".pdf"),
                PyStr("markdown " \o ToString(nc) \o "/" \o ToString(ni)),
                PyList([k \in 1..nc |-> CoreChunk(k)]))
CoreExtract(nc, ni) ==
    PyObj([extraction |->
        PyDict([invoice_info |-> PyDict([invoice_number |-> PyStr("INV-" \o ToString(ni))]),
                line_items |-> PyList([k \in 1..ni |-> CoreItem(k)])])])
Pair(p, e) == PyTuple(<<p, e>>)
CoreShapes == {<<0, 0>>, <<MaxChunks, 0>>, <<1, MaxItems>>, <<MaxChunks, 1>>}
CoreDocs == {Pair(CoreParse(s[1], s[2]), CoreExtract(s[1], s[2])) : s \in CoreShapes}

ProbeMetadata ==
    {PyObj([filename |-> PyStr("only-name.pdf")]), PyObj([version |-> PyStr("v9")]),
     PyObj(NoAttrs), None, PyObj([filename |-> None, version |-> None])}

ProbeParses ==
    {ParseResult(m, PyStr("md"), PyList(<<CoreChunk(1)>>)) : m \in ProbeMetadata}
    \cup {ParseResult(CoreMetadata("chunk.pdf"), PyStr("md"), PyList(<<c>>)) : c \in ProbeChunks}
    \cup {ParseResult(CoreMetadata("chunks.pdf"), PyStr("md"), cs) :
            cs \in {None, PyInt(3), PyTuple(<<CoreChunk(1)>>)}}
    \cup {PyObj([markdown |-> PyStr("md"), chunks |-> PyList(<<>>)]),
          PyObj([metadata |-> CoreMetadata("nomd.pdf"), chunks |-> PyList(<<>>)]),
          PyObj([metadata |-> CoreMetadata("nochunks.pdf"), markdown |-> PyStr("md")]),
          ParseResult(CoreMetadata("nonemd.pdf"), None, PyList(<<>>)),
          None}

ProbeDocs ==
    {Pair(p, CoreExtract(1, 1)) : p \in ProbeParses}
    \cup {Pair(CoreParse(1, 0), e) : e \in ProbeExtracts}

RECURSIVE SeqsUpTo(_, _)
SeqsUpTo(S, n) ==
    IF n = 0 THEN {<<>>}
    ELSE LET shorter == SeqsUpTo(S, n - 1)
         IN shorter \cup {Append(q, x) : q \in shorter, x \in S}

CallerRunIds == {None, PyStr("run-A")}
Call1(results, extractResult, runId) ==
    [results |-> results, extract_result |-> extractResult, run_id |-> runId]

\* What a caller passes: batches of core documents, batches of one probe
\* document, the single document mode with and without extract_result, a
\* batch together with an extract_result, tuples of pairs, and lists whose
\* elements are not pairs.
Inputs ==
    {Call1(PyList(b), None, r) : b \in SeqsUpTo(CoreDocs, MaxDocs), r \in CallerRunIds}
    \cup {Call1(PyList(<<d>>), None, None) : d \in ProbeDocs}
    \cup {Call1(d.e[1], None, r) : d \in CoreDocs, r \in CallerRunIds}
    \cup {Call1(d.e[1], d.e[2], r) : d \in CoreDocs, r \in CallerRunIds}
    \cup {Call1(d.e[1], d.e[2], PyStr("run-A")) : d \in ProbeDocs}
    \cup {Call1(PyList(b), CoreExtract(1, 1), r) :
            b \in SeqsUpTo(CoreDocs, 1), r \in CallerRunIds}
    \cup {Call1(PyTuple(<<d>>), x, None) :
            d \in CoreDocs, x \in {None, CoreExtract(1, 1)}}
    \cup {Call1(PyList(<<x>>), None, None) :
            x \in {None, PyTuple(<<CoreParse(0, 0)>>), CoreParse(0, 0),
                   PyList(<<CoreParse(1, 1), CoreExtract(1, 1)>>)}}

\* ------------------------------------------------------- parse_extract_save
\* Path(document_path): the file name is its stem followed by its suffix.
DocPath(stem, suffix) == [stem |-> stem, suffix |-> suffix]

\* doc_path.stem
Stem(path) == path.stem

\* The documents a caller names, and the ones that are on disk.
DocumentPaths == {DocPath("inv", ".pdf"), DocPath("po", ".png"), DocPath("gone", ".pdf")}
ExistingDocuments == {DocPath("inv", ".pdf"), DocPath("po", ".png")}

\* doc_path.exists()
Exists(path) == path \in ExistingDocuments

\* output_path / f"parse_{base_filename}.json" and f"extract_{base_filename}.json"
ParseJsonName(base_filename) == "parse_" \o base_filename \o ".json"
ExtractJsonName(base_filename) == "extract_" \o base_filename \o ".json"

\* str(o), the text default=str makes of an object json cannot serialise.
StrOf(o) == [t |-> "str", of |-> o]

\* json.dumps(v, indent=2, default=str): the JSON text of v.
JsonDumps(v) == [t |-> "json", of |-> IF v.t = "obj" THEN StrOf(v) ELSE v]

\* Lines 176-179 and 197-200: the JSON text of a result.  The attribute
\* model_dump of a response stands for what its method model_dump() returns.
ResultJson(result) ==
    IF HasAttr(result, "model_dump")
    THEN JsonDumps(GetAttr(result, "model_dump"))
    ELSE JsonDumps(result)

\* s.encode("utf-8") and io.BytesIO(b)
Encode(s) == [t |-> "bytes", utf8 |-> s.v]
BytesIO(b) == [t |-> "BytesIO", b |-> b]

\* pydantic_to_json_schema(schema_class)
PydanticSchema(schema_class) == [t |-> "json_schema", of |-> schema_class]

\* What client.parse and client.extract may return: a response model with
\* model_dump, and objects of other clients without it; one parse result has
\* no markdown.
ParseResponses ==
    {PyObj([markdown |-> PyStr("# inv"),
            model_dump |-> PyDict([markdown |-> PyStr("# inv")])]),
     PyObj([markdown |-> PyStr("# scan")]),
     PyObj([chunks |-> PyList(<<>>)])}
ExtractResponses ==
    {PyObj([extraction |-> PyDict([invoice_number |-> PyStr("F-1")]),
            model_dump |-> PyDict([extraction |-> PyDict([invoice_number |-> PyStr("F-1")])])]),
     PyObj([extraction |-> None])}

\* open(path, "w") creates or empties the file; f.write(text) fills it.
WriteFile(fs, name, text) ==
    [n \in DOMAIN fs \cup {name} |-> IF n = name THEN text ELSE fs[n]]
EmptyText == [t |-> "empty"]
NoFiles == [n \in {} |-> EmptyText]

\* Mutant: both files are written at the end, after client.extract.
StepOrderSaveLast ==
    <<"exists", "mkdir", "parse", "schema", "extract", "write_parse",
      "write_extract", "return">>

\* Lines 161-206: the statements of the function, in program order.
StepOrder ==
    <<"exists", "mkdir", "parse", "write_parse", "schema", "extract",
      "write_extract", "return">>

\* The step that follows step p when p raises nothing.
After(p) == StepOrder[(CHOOSE i \in DOMAIN StepOrder : StepOrder[i] = p) + 1]

NoExc == [type |-> "none", at |-> "none"]
NoSaveArgs == [document_path |-> NoValue, schema_class |-> NoValue, output_dir |-> NoValue]

SaveInit ==
    /\ save_pc = "idle"
    /\ save_args = NoSaveArgs
    /\ parse_result = NoValue
    /\ json_schema = NoValue
    /\ extract_result = NoValue
    /\ save_ret = NoValue
    /\ save_exc = NoExc
    /\ steps = <<>>
    /\ output_dir_exists = FALSE
    /\ files = NoFiles
    /\ entry = [files |-> NoFiles, dir |-> FALSE]
    /\ saves = 0

\* Lines 115, 158, 165, 169: a caller, who has the result or the exception
\* of the call before, calls with a document path; the output directory is
\* the default one.
SaveCall(path) ==
    /\ save_pc \in {"idle", "returned", "raised"}
    /\ saves < MaxSaves
    /\ saves' = saves + 1
    /\ save_args' = [document_path |-> path, schema_class |-> "InvoiceExtractionSchema",
                     output_dir |-> "./ade_results"]
    /\ save_pc' = StepOrder[1]
    /\ parse_result' = NoValue
    /\ json_schema' = NoValue
    /\ extract_result' = NoValue
    /\ save_ret' = NoValue
    /\ save_exc' = NoExc
    /\ steps' = <<>>
    /\ entry' = [files |-> files, dir |-> output_dir_exists]
    /\ UNCHANGED <<output_dir_exists, files>>
    /\ UNCHANGED tableVars

\* A statement raises: the exception leaves the function from there.
Raise(type) ==
    /\ save_pc' = "raised"
    /\ save_exc' = [type |-> type, at |-> save_pc]

\* Lines 161-162: the document must exist.
PathExists ==
    /\ save_pc = "exists"
    /\ steps' = Append(steps, [op |-> "exists", path |-> save_args.document_path])
    /\ IF Exists(save_args.document_path)
       THEN save_pc' = After(save_pc) /\ UNCHANGED save_exc
       ELSE Raise("FileNotFoundError")
    /\ UNCHANGED <<save_args, parse_result, json_schema, extract_result, save_ret,
                   output_dir_exists, files, entry, saves>>
    /\ UNCHANGED tableVars

\* Line 166: output_path.mkdir(parents=True, exist_ok=True); a directory
\* that is not there may fail to be made.
Mkdir ==
    /\ save_pc = "mkdir"
    /\ steps' = Append(steps, [op |-> "mkdir"])
    /\ \E ok \in BOOLEAN :
          /\ ok \/ ~output_dir_exists
          /\ IF ok
             THEN /\ output_dir_exists' = TRUE
                  /\ save_pc' = After(save_pc)
                  /\ UNCHANGED save_exc
             ELSE Raise("OSError") /\ UNCHANGED output_dir_exists
    /\ UNCHANGED <<save_args, parse_result, json_schema, extract_result, save_ret,
                   files, entry, saves>>
    /\ UNCHANGED tableVars

\* Line 172: parse_result = client.parse(document=doc_path)
ClientParse ==
    /\ save_pc = "parse"
    /\ steps' = Append(steps, [op |-> "parse", document |-> save_args.document_path])
    /\ \/ \E r \in ParseResponses :
             /\ parse_result' = r
             /\ save_pc' = After(save_pc)
             /\ UNCHANGED save_exc
       \/ Raise("APIError") /\ UNCHANGED parse_result
    /\ UNCHANGED <<save_args, json_schema, extract_result, save_ret,
                   output_dir_exists, files, entry, saves>>
    /\ UNCHANGED tableVars

\* Lines 181-182 and 202-203: `with open(path, "w") as f: f.write(text)`.
\* open may fail, which leaves the file as it was; write may fail after open
\* has emptied the file.
SaveJson(name, text) ==
    /\ steps' = Append(steps, [op |-> save_pc, name |-> name])
    /\ \/ /\ files' = WriteFile(files, name, text)
          /\ save_pc' = After(save_pc)
          /\ UNCHANGED save_exc
       \/ /\ UNCHANGED files
          /\ Raise("OSError")
       \/ /\ files' = WriteFile(files, name, EmptyText)
          /\ Raise("OSError")

\* Lines 175-183: the parse result is saved as parse_{stem}.json.
WriteParseJson ==
    /\ save_pc = "write_parse"
    /\ SaveJson(ParseJsonName(Stem(save_args.document_path)), ResultJson(parse_result))
    /\ UNCHANGED <<save_args, parse_result, json_schema, extract_result, save_ret,
                   output_dir_exists, entry, saves>>
    /\ UNCHANGED tableVars

\* Line 187: json_schema = pydantic_to_json_schema(schema_class)
PydanticToJsonSchema ==
    /\ save_pc = "schema"
    /\ \/ /\ json_schema' = PydanticSchema(save_args.schema_class)
          /\ save_pc' = After(save_pc)
          /\ UNCHANGED save_exc
       \/ Raise("TypeError") /\ UNCHANGED json_schema
    /\ UNCHANGED <<save_args, parse_result, extract_result, save_ret, steps,
                   output_dir_exists, files, entry, saves>>
    /\ UNCHANGED tableVars

\* Lines 190-193: the arguments are evaluated, parse_result.markdown.encode
\* among them, then client.extract is called.
ClientExtract ==
    /\ save_pc = "extract"
    /\ IF ~HasAttr(parse_result, "markdown")
       THEN /\ Raise("AttributeError")
            /\ UNCHANGED <<steps, extract_result>>
       ELSE /\ steps' = Append(steps,
                   [op |-> "extract", schema |-> json_schema,
                    markdown |-> BytesIO(Encode(GetAttr(parse_result, "markdown")))])
            /\ \/ \E r \in ExtractResponses :
                     /\ extract_result' = r
                     /\ save_pc' = After(save_pc)
                     /\ UNCHANGED save_exc
               \/ Raise("APIError") /\ UNCHANGED extract_result
    /\ UNCHANGED <<save_args, parse_result, json_schema, save_ret,
                   output_dir_exists, files, entry, saves>>
    /\ UNCHANGED tableVars

\* Lines 196-204: the extract result is saved as extract_{stem}.json.
WriteExtractJson ==
    /\ save_pc = "write_extract"
    /\ SaveJson(ExtractJsonName(Stem(save_args.document_path)), ResultJson(extract_result))
    /\ UNCHANGED <<save_args, parse_result, json_schema, extract_result, save_ret,
                   output_dir_exists, entry, saves>>
    /\ UNCHANGED tableVars

\* Line 206: return parse_result, extract_result
ReturnResults ==
    /\ save_pc = "return"
    /\ save_ret' = PyTuple(<<parse_result, extract_result>>)
    /\ save_pc' = "returned"
    /\ UNCHANGED <<save_args, parse_result, json_schema, extract_result, save_exc,
                   steps, output_dir_exists, files, entry, saves>>
    /\ UNCHANGED tableVars

NextSave ==
    \/ \E path \in DocumentPaths : SaveCall(path)
    \/ PathExists
    \/ Mkdir
    \/ ClientParse
    \/ WriteParseJson
    \/ PydanticToJsonSchema
    \/ ClientExtract
    \/ WriteExtractJson
    \/ ReturnResults

\* ------------------------------------------------------------ the actions
Init ==
    /\ pc = "idle"
    /\ args = NoArgs
    /\ run_id = NoValue
    /\ results_list = <<>>
    /\ doc_idx = 0
    /\ markdown_rows = <<>>
    /\ chunks_rows = <<>>
    /\ main_rows = <<>>
    /\ line_items_rows = <<>>
    /\ invoice_summaries = NoValue
    /\ exc = "none"
    /\ issued = 0
    /\ pastMax = 0
    /\ calls = 0
    /\ SaveInit

\* Lines 254-272: mode detection, the run identifier, the four empty lists.
Call(a) ==
    /\ pc = "idle"
    /\ calls < MaxCalls
    /\ calls' = calls + 1
    /\ args' = a
    /\ invoice_summaries' = NoValue
    /\ doc_idx' = 0
    /\ markdown_rows' = <<>>
    /\ chunks_rows' = <<>>
    /\ main_rows' = <<>>
    /\ line_items_rows' = <<>>
    /\ IF MissingExtract(a.results, a.extract_result)
       THEN /\ pc' = "raised"
            /\ exc' = "ValueError"
            /\ run_id' = a.run_id
            /\ results_list' = <<>>
            /\ issued' = issued
       ELSE /\ pc' = "loop"
            /\ exc' = "none"
            /\ results_list' = ResultsList(a.results, a.extract_result)
            /\ run_id' = RunId(a.run_id, issued)
            /\ issued' = IF a.run_id = None THEN issued + 1 ELSE issued
    /\ UNCHANGED pastMax
    /\ UNCHANGED saveVars

\* Lines 275-401: one iteration of `for parse_result, extract_result in
\* results_list`.  An element that does not unpack into two values raises
\* before anything of the body runs.
ProcessDocument ==
    /\ pc = "loop"
    /\ doc_idx < Len(results_list)
    /\ LET elem == results_list[doc_idx + 1]
       IN IF ~Iterable(elem) \/ Len(Elems(elem)) # 2
          THEN /\ pc' = "raised"
               /\ exc' = IF Iterable(elem) THEN "ValueError" ELSE "TypeError"
               /\ UNCHANGED <<doc_idx, markdown_rows, chunks_rows, main_rows,
                              line_items_rows, issued>>
          ELSE \E r \in {LoopBody(Elems(elem)[1], Elems(elem)[2], run_id,
                                  InvoiceUuid(issued), markdown_rows, chunks_rows,
                                  main_rows, line_items_rows)} :
                  /\ issued' = issued + 1
                  /\ markdown_rows' = r.markdown_rows
                  /\ chunks_rows' = r.chunks_rows
                  /\ main_rows' = r.main_rows
                  /\ line_items_rows' = r.line_items_rows
                  /\ exc' = r.exc
                  /\ pc' = IF r.exc = "none" THEN "loop" ELSE "raised"
                  /\ doc_idx' = IF r.exc = "none" THEN doc_idx + 1 ELSE doc_idx
    /\ UNCHANGED <<args, run_id, results_list, invoice_summaries, pastMax, calls>>
    /\ UNCHANGED saveVars

\* Lines 403-412: the four DataFrames are built and returned.
BuildTables ==
    /\ pc = "loop"
    /\ doc_idx = Len(results_list)
    /\ invoice_summaries' = <<DataFrame(markdown_rows), DataFrame(chunks_rows),
                              DataFrame(main_rows), DataFrame(line_items_rows)>>
    /\ pc' = "done"
    /\ UNCHANGED <<args, run_id, results_list, doc_idx, markdown_rows, chunks_rows,
                   main_rows, line_items_rows, exc, issued, pastMax, calls>>
    /\ UNCHANGED saveVars

\* The frame of the call is gone: the caller keeps the returned tables (here,
\* how far their INVOICE_UUID values reach into the sequence of identifiers
\* drawn) or sees the exception, and may call again.
Leave(ids) ==
    /\ pastMax' = IF \E n \in ids : n > pastMax
                  THEN CHOOSE n \in ids : \A m \in ids : m <= n
                  ELSE pastMax
    /\ pc' = "idle"
    /\ args' = NoArgs
    /\ run_id' = NoValue
    /\ results_list' = <<>>
    /\ doc_idx' = 0
    /\ markdown_rows' = <<>>
    /\ chunks_rows' = <<>>
    /\ main_rows' = <<>>
    /\ line_items_rows' = <<>>
    /\ invoice_summaries' = NoValue
    /\ exc' = "none"
    /\ UNCHANGED <<issued, calls>>
    /\ UNCHANGED saveVars

TableIds(table) == {table.data[i].INVOICE_UUID.v : i \in 1..table.nrows}

Return ==
    /\ pc = "done"
    /\ Leave(UNION {TableIds(invoice_summaries[k]) : k \in 1..4})

Propagate ==
    /\ pc = "raised"
    /\ Leave({})

Next ==
    \/ \E a \in Inputs : Call(a)
    \/ ProcessDocument
    \/ BuildTables
    \/ Return
    \/ Propagate

Spec == Init /\ [][Next]_vars

\* parse_extract_save alone, the tables untouched.
SpecSave == Init /\ [][NextSave]_vars

TypeOK ==
    /\ pc \in {"idle", "loop", "done", "raised"}
    /\ exc \in {"none", "ValueError", "TypeError", "AttributeError"}
    /\ (pc = "raised") = (exc # "none")
    /\ (pc = "done") = (invoice_summaries # NoValue)
    /\ doc_idx \in 0..Len(results_list)
    /\ issued \in Nat
    /\ calls \in 0..MaxCalls

\* ------------------------------------------------------------- the claims
\* What the claims say about the input, written from their wording.

\* The pairs of the running call: the batch itself, or the one pair of the
\* single document mode.
InputPairs ==
    IF args.results.t = "list" THEN args.results.e
    ELSE <<PyTuple(<<args.results, args.extract_result>>)>>

IsPair(x) == x.t = "tuple" /\ Len(x.e) = 2
ParseOf(j) == InputPairs[j].e[1]
ExtractOf(j) == InputPairs[j].e[2]

\* extraction of a pair's extract result; None when there is none.
ExtractionOf(j) ==
    IF ExtractOf(j).t = "obj" /\ "extraction" \in DOMAIN ExtractOf(j).a
    THEN ExtractOf(j).a.extraction ELSE None

\* The chunks and the line items of document j, in input order.
ChunksOf(j) == Elems(ParseOf(j).a.chunks)
ItemsOf(j) ==
    LET x == ExtractionOf(j)
    IN IF x.t = "dict" /\ "line_items" \in DOMAIN x.a /\ x.a.line_items # None
       THEN Elems(x.a.line_items) ELSE <<>>

\* A well-formed pair: a parse result with metadata, markdown and a list of
\* chunks, and an extract result whose extraction is a mapping with a list
\* of line items, or none.
WellFormedPair(x) ==
    /\ IsPair(x)
    /\ x.e[1].t = "obj"
    /\ {"metadata", "markdown", "chunks"} \subseteq DOMAIN x.e[1].a
    /\ x.e[1].a.metadata.t = "obj"
    /\ x.e[1].a.chunks.t = "list"
    /\ x.e[2].t = "obj"
    /\ "extraction" \in DOMAIN x.e[2].a
    /\ x.e[2].a.extraction.t = "dict"
    /\ "line_items" \in DOMAIN x.e[2].a.extraction.a
          => x.e[2].a.extraction.a.line_items.t \in {"list", "none"}

WellFormedBatch ==
    /\ args.results.t = "list"
    /\ \A j \in 1..Len(args.results.e) : WellFormedPair(args.results.e[j])

NumChunks(j) == Len(ChunksOf(j))
NumItems(j) == Len(ItemsOf(j))

\* The chunks, and the line items, of the first n documents together.
RECURSIVE ChunksUpTo(_)
ChunksUpTo(n) == IF n = 0 THEN 0 ELSE NumChunks(n) + ChunksUpTo(n - 1)
RECURSIVE ItemsUpTo(_)
ItemsUpTo(n) == IF n = 0 THEN 0 ELSE NumItems(n) + ItemsUpTo(n - 1)

\* C1: a batch of n well-formed pairs never raises, and the four returned
\* tables have n MARKDOWN rows, n INVOICES_MAIN rows, as many PARSED_CHUNKS
\* rows as the documents have chunks and as many INVOICE_LINE_ITEMS rows as
\* they have line items; the empty batch gives four empty tables.
C1_RowCounts ==
    WellFormedBatch =>
        /\ pc # "raised"
        /\ pc = "done" =>
              LET n == Len(args.results.e)
              IN /\ invoice_summaries[1].nrows = n
                 /\ invoice_summaries[3].nrows = n
                 /\ invoice_summaries[2].nrows = ChunksUpTo(n)
                 /\ invoice_summaries[4].nrows = ItemsUpTo(n)
                 /\ \A k \in 1..4 : Len(invoice_summaries[k].data) = invoice_summaries[k].nrows

C1_Witness ==
    /\ pc = "done"
    /\ WellFormedBatch
    /\ Len(args.results.e) = 2
    /\ NumChunks(1) # NumChunks(2)
    /\ NumItems(1) > 0 /\ NumItems(2) > 0
    /\ invoice_summaries[2].nrows = NumChunks(1) + NumChunks(2)
    /\ invoice_summaries[4].nrows = NumItems(1) + NumItems(2)

\* The rows accumulated so far, and the rows of the returned tables.
AllRows ==
    {markdown_rows[i] : i \in DOMAIN markdown_rows}
    \cup {chunks_rows[i] : i \in DOMAIN chunks_rows}
    \cup {main_rows[i] : i \in DOMAIN main_rows}
    \cup {line_items_rows[i] : i \in DOMAIN line_items_rows}
ReturnedRows ==
    IF pc = "done"
    THEN UNION {{invoice_summaries[k].data[i] : i \in 1..invoice_summaries[k].nrows} :
                  k \in 1..4}
    ELSE {}

\* C2: all rows of one call carry one RUN_ID: the caller's run_id when one
\* is passed, otherwise one generated identifier, which no document's
\* INVOICE_UUID equals.
C2_OneRunId ==
    \A r \in AllRows \cup ReturnedRows :
        /\ \A q \in AllRows \cup ReturnedRows : q.RUN_ID = r.RUN_ID
        /\ r.RUN_ID = run_id
        /\ args.run_id # None => r.RUN_ID = args.run_id
        /\ args.run_id = None =>
              /\ r.RUN_ID.t = "uuid"
              /\ \A q \in AllRows : q.INVOICE_UUID # r.RUN_ID

C2_Witness ==
    /\ pc = "done"
    /\ args.run_id = None
    /\ Len(markdown_rows) = 2
    /\ chunks_rows # <<>>
    /\ line_items_rows # <<>>
    /\ markdown_rows[1].RUN_ID = markdown_rows[2].RUN_ID
    /\ markdown_rows[1].RUN_ID.t = "uuid"

\* The document (its position in the input) that owns the p-th PARSED_CHUNKS
\* row and the p-th INVOICE_LINE_ITEMS row when rows keep the input order.
DocOfChunkRow(p) ==
    CHOOSE j \in 1..doc_idx : ChunksUpTo(j - 1) < p /\ p <= ChunksUpTo(j)
DocOfItemRow(p) ==
    CHOOSE j \in 1..doc_idx : ItemsUpTo(j - 1) < p /\ p <= ItemsUpTo(j)

\* C3: each document of a call has one INVOICE_UUID, carried by its MARKDOWN
\* row, its INVOICES_MAIN row, its chunk rows and its line item rows; two
\* documents of a call never share it, even when they are the same pair, and
\* it is none of the identifiers returned by earlier calls.
C3_InvoiceUuidPerDocument ==
    pc \in {"loop", "done"} =>
        /\ Len(markdown_rows) = doc_idx
        /\ Len(main_rows) = doc_idx
        /\ \A j, k \in 1..doc_idx :
              (markdown_rows[j].INVOICE_UUID = markdown_rows[k].INVOICE_UUID) <=> (j = k)
        /\ \A j \in 1..doc_idx :
              main_rows[j].INVOICE_UUID = markdown_rows[j].INVOICE_UUID
        /\ \A p \in DOMAIN chunks_rows :
              chunks_rows[p].INVOICE_UUID = markdown_rows[DocOfChunkRow(p)].INVOICE_UUID
        /\ \A p \in DOMAIN line_items_rows :
              line_items_rows[p].INVOICE_UUID = markdown_rows[DocOfItemRow(p)].INVOICE_UUID
        /\ \A r \in AllRows \cup ReturnedRows :
              /\ r.INVOICE_UUID.t = "uuid"
              /\ r.INVOICE_UUID.v > pastMax

C3_Witness ==
    /\ pc = "done"
    /\ pastMax > 0
    /\ args.results.t = "list"
    /\ Len(args.results.e) = 2
    /\ args.results.e[1] = args.results.e[2]
    /\ Len(chunks_rows) >= 2
    /\ Len(line_items_rows) >= 2
    /\ markdown_rows[1].INVOICE_UUID # markdown_rows[2].INVOICE_UUID

\* C4: a call whose first argument is not a list and whose extract_result
\* is None raises ValueError at once: no identifier is drawn, no row is
\* emitted and no table is built, and the raised call returns nothing.
C4_MissingExtractFailsFast ==
    [][/\ (/\ pc = "idle"
           /\ pc' # "idle"
           /\ args'.results.t # "list"
           /\ args'.extract_result = None)
          => /\ pc' = "raised"
             /\ exc' = "ValueError"
             /\ issued' = issued
             /\ AllRows' = {}
             /\ invoice_summaries' = NoValue
       /\ pc = "raised" => (pc' = "idle" /\ invoice_summaries = NoValue)]_vars

C4_Witness ==
    /\ pc = "raised"
    /\ exc = "ValueError"
    /\ args.results.t = "obj"
    /\ args.extract_result = None
    /\ args.run_id = None
    /\ AllRows = {}

\* C5: for a list whose elements all are pairs with a parse result object the
\* call never raises, however incomplete the responses are.
C5_OnlyContractViolationsRaise ==
    (/\ args.results.t = "list"
     /\ \A j \in 1..Len(args.results.e) :
           IsPair(args.results.e[j]) /\ args.results.e[j].e[1].t = "obj")
    => pc # "raised"

\* The header fields as the specification's table lists them, group by
\* group: <<column, group, field>>, the column being the field in capitals.
HeaderColumns ==
    << <<"INVOICE_DATE_RAW", "invoice_info", "invoice_date_raw">>,
       <<"INVOICE_DATE", "invoice_info", "invoice_date">>,
       <<"INVOICE_NUMBER", "invoice_info", "invoice_number">>,
       <<"ORDER_DATE", "invoice_info", "order_date">>,
       <<"PO_NUMBER", "invoice_info", "po_number">>,
       <<"STATUS", "invoice_info", "status">>,
       <<"SOLD_TO_NAME", "customer_info", "sold_to_name">>,
       <<"SOLD_TO_ADDRESS", "customer_info", "sold_to_address">>,
       <<"CUSTOMER_EMAIL", "customer_info", "customer_email">>,
       <<"SUPPLIER_NAME", "company_info", "supplier_name">>,
       <<"SUPPLIER_ADDRESS", "company_info", "supplier_address">>,
       <<"REPRESENTATIVE", "company_info", "representative">>,
       <<"EMAIL", "company_info", "email">>,
       <<"PHONE", "company_info", "phone">>,
       <<"GSTIN", "company_info", "gstin">>,
       <<"PAN", "company_info", "pan">>,
       <<"PAYMENT_TERMS", "order_details", "payment_terms">>,
       <<"SHIP_VIA", "order_details", "ship_via">>,
       <<"SHIP_DATE", "order_details", "ship_date">>,
       <<"TRACKING_NUMBER", "order_details", "tracking_number">>,
       <<"CURRENCY", "totals_summary", "currency">>,
       <<"TOTAL_DUE_RAW", "totals_summary", "total_due_raw">>,
       <<"TOTAL_DUE", "totals_summary", "total_due">>,
       <<"SUBTOTAL", "totals_summary", "subtotal">>,
       <<"TAX", "totals_summary", "tax">>,
       <<"SHIPPING", "totals_summary", "shipping">>,
       <<"HANDLING_FEE", "totals_summary", "handling_fee">> >>

IdColumns == {"RUN_ID", "INVOICE_UUID", "DOCUMENT_NAME", "AGENTIC_DOC_VERSION"}

\* The null-safe two-level lookup x[group][field].
Lookup2(x, group, field) ==
    IF /\ x.t = "dict"
       /\ group \in DOMAIN x.a
       /\ x.a[group].t = "dict"
       /\ field \in DOMAIN x.a[group].a
    THEN x.a[group].a[field]
    ELSE None

OnlyInvoiceNumber ==
    PyDict([invoice_info |-> PyDict([invoice_number |-> PyStr("INV-001")])])

\* C6: each of the 27 header columns of a document's INVOICES_MAIN row is
\* the null-safe lookup extraction[group][field] of the table: None when the
\* extraction, the group or the field is absent or the group or extraction is
\* not a mapping, the stored value otherwise.  An extraction holding only
\* invoice_info.invoice_number fills INVOICE_NUMBER and nothing else.
C6_HeaderFields ==
    pc \in {"loop", "done"} =>
        \A j \in DOMAIN main_rows :
            /\ DOMAIN main_rows[j] =
                  IdColumns \cup {HeaderColumns[i][1] : i \in DOMAIN HeaderColumns}
            /\ \A i \in DOMAIN HeaderColumns :
                  main_rows[j][HeaderColumns[i][1]] =
                      Lookup2(ExtractionOf(j), HeaderColumns[i][2], HeaderColumns[i][3])
            /\ ExtractionOf(j) = OnlyInvoiceNumber =>
                  \A i \in DOMAIN HeaderColumns :
                      main_rows[j][HeaderColumns[i][1]] =
                          IF HeaderColumns[i][1] = "INVOICE_NUMBER"
                          THEN PyStr("INV-001") ELSE None
            /\ pc = "done" => invoice_summaries[3].data[j] = main_rows[j]

C6_Witness ==
    /\ pc = "done"
    /\ Len(main_rows) = 1
    /\ ExtractionOf(1) = OnlyInvoiceNumber
    /\ main_rows[1].INVOICE_NUMBER = PyStr("INV-001")
    /\ main_rows[1].INVOICE_DATE = None
    /\ main_rows[1].PO_NUMBER = None
    /\ main_rows[1].TOTAL_DUE = None

\* The input chunk behind the p-th PARSED_CHUNKS row.
ChunkOfRow(p) ==
    LET j == DocOfChunkRow(p) IN ChunksOf(j)[p - ChunksUpTo(j - 1)]

BoxColumns ==
    << <<"box_l", "left">>, <<"box_t", "top">>, <<"box_r", "right">>, <<"box_b", "bottom">> >>

AttrOrNone(o, name) == IF name \in DOMAIN o.a THEN o.a[name] ELSE None
Missing(o, name) == name \notin DOMAIN o.a \/ o.a[name] = None

\* C7: a chunk without grounding (absent or None) has page and the four box
\* columns None; with a grounding but no box (absent or None) the box columns
\* are None and page is grounding.page; with a box, each coordinate is read
\* on its own: a missing one is None, a set one is kept as it is, 0 included.
C7_Grounding ==
    pc \in {"loop", "done"} =>
        \A p \in DOMAIN chunks_rows :
            LET c == ChunkOfRow(p)
                row == chunks_rows[p]
                boxNone == \A i \in DOMAIN BoxColumns : row[BoxColumns[i][1]] = None
            IN IF c.t # "obj" \/ Missing(c, "grounding")
               THEN row.page = None /\ boxNone
               ELSE LET g == c.a.grounding
                    IN g.t = "obj" =>
                         /\ row.page = AttrOrNone(g, "page")
                         /\ IF Missing(g, "box")
                            THEN boxNone
                            ELSE g.a.box.t = "obj" =>
                                   \A i \in DOMAIN BoxColumns :
                                       row[BoxColumns[i][1]] =
                                           AttrOrNone(g.a.box, BoxColumns[i][2])

C7_Witness ==
    /\ pc = "done"
    /\ Len(chunks_rows) = 1
    /\ ChunkOfRow(1).t = "obj"
    /\ "grounding" \in DOMAIN ChunkOfRow(1).a
    /\ ChunkOfRow(1).a.grounding = PyObj([page |-> PyInt(2),
                                         box |-> PyObj([left |-> PyInt(0), top |-> PyInt(3)])])
    /\ chunks_rows[1].page = PyInt(2)
    /\ chunks_rows[1].box_l = PyInt(0)
    /\ chunks_rows[1].box_t = PyInt(3)
    /\ chunks_rows[1].box_r = None
    /\ chunks_rows[1].box_b = None

\* The line item columns: <<column, field>>.
ItemColumns ==
    << <<"LINE_NUMBER", "line_number">>, <<"SKU", "sku">>,
       <<"DESCRIPTION", "description">>, <<"QUANTITY", "quantity">>,
       <<"UNIT_PRICE", "unit_price">>, <<"PRICE", "price">>,
       <<"AMOUNT", "amount">>, <<"TOTAL", "total">> >>

\* C8: the line items of a document are extraction['line_items'], none when
\* the key is absent or None; item i (from 0, per document) gives one row
\* with LINE_INDEX i whose eight fields are read by key from a mapping and by
\* attribute from an object, None where the item does not carry the field.
C8_LineItems ==
    pc \in {"loop", "done"} =>
        /\ Len(line_items_rows) = ItemsUpTo(doc_idx)
        /\ \A p \in DOMAIN line_items_rows :
              LET j == DocOfItemRow(p)
                  i == p - ItemsUpTo(j - 1)
                  item == ItemsOf(j)[i]
                  row == line_items_rows[p]
              IN /\ row.LINE_INDEX = PyInt(i - 1)
                 /\ \A k \in DOMAIN ItemColumns :
                       row[ItemColumns[k][1]] =
                           IF item.t \in {"dict", "obj"}
                           THEN AttrOrNone(item, ItemColumns[k][2])
                           ELSE None

C8_Witness ==
    /\ pc = "done"
    /\ args.results.t = "list"
    /\ Len(args.results.e) = 2
    /\ Len(line_items_rows) = 3
    /\ ItemsOf(1) = <<PyDict([sku |-> PyStr("A1"), quantity |-> PyInt(3)]),
                      PyObj([sku |-> PyStr("A2"), quantity |-> PyInt(5)])>>
    /\ line_items_rows[1].LINE_INDEX = PyInt(0)
    /\ line_items_rows[1].SKU = PyStr("A1")
    /\ line_items_rows[2].LINE_INDEX = PyInt(1)
    /\ line_items_rows[2].SKU = PyStr("A2")
    /\ line_items_rows[2].QUANTITY = PyInt(5)
    /\ line_items_rows[2].TOTAL = None
    /\ line_items_rows[3].LINE_INDEX = PyInt(0)

\* C9: every table keeps the input order: the rows of document j precede
\* those of document k for j before k, a document's chunk rows follow its
\* chunks and its line item rows follow its line items; rows of different
\* documents never interleave.
C9_InputOrder ==
    pc \in {"loop", "done"} =>
        /\ Len(markdown_rows) = doc_idx
        /\ Len(main_rows) = doc_idx
        /\ Len(chunks_rows) = ChunksUpTo(doc_idx)
        /\ Len(line_items_rows) = ItemsUpTo(doc_idx)
        /\ \A j \in 1..doc_idx :
              /\ markdown_rows[j].MARKDOWN = ParseOf(j).a.markdown
              /\ main_rows[j].INVOICE_NUMBER =
                    Lookup2(ExtractionOf(j), "invoice_info", "invoice_number")
              /\ \A k \in 1..doc_idx :
                    j < k => /\ markdown_rows[j].INVOICE_UUID.v < markdown_rows[k].INVOICE_UUID.v
                             /\ main_rows[j].INVOICE_UUID.v < main_rows[k].INVOICE_UUID.v
        /\ \A p \in DOMAIN chunks_rows :
              LET j == DocOfChunkRow(p)
                  c == ChunkOfRow(p)
              IN /\ chunks_rows[p].INVOICE_UUID = markdown_rows[j].INVOICE_UUID
                 /\ chunks_rows[p].DOCUMENT_NAME = markdown_rows[j].DOCUMENT_NAME
                 /\ c.t = "obj" =>
                       /\ chunks_rows[p].chunk_id = AttrOrNone(c, "id")
                       /\ "markdown" \in DOMAIN c.a => chunks_rows[p].text = c.a.markdown
        /\ \A p \in DOMAIN line_items_rows :
              LET j == DocOfItemRow(p)
                  item == ItemsOf(j)[p - ItemsUpTo(j - 1)]
              IN /\ line_items_rows[p].INVOICE_UUID = markdown_rows[j].INVOICE_UUID
                 /\ line_items_rows[p].LINE_INDEX = PyInt(p - ItemsUpTo(j - 1) - 1)
                 /\ item.t \in {"dict", "obj"} =>
                       line_items_rows[p].SKU = AttrOrNone(item, "sku")
        /\ pc = "done" =>
              /\ invoice_summaries[1].data = markdown_rows
              /\ invoice_summaries[2].data = chunks_rows
              /\ invoice_summaries[3].data = main_rows
              /\ invoice_summaries[4].data = line_items_rows

C9_Witness ==
    /\ pc = "done"
    /\ args.results.t = "list"
    /\ Len(markdown_rows) = 2
    /\ markdown_rows[1].MARKDOWN # markdown_rows[2].MARKDOWN
    /\ Len(chunks_rows) = 3
    /\ chunks_rows[1].chunk_id = PyStr("c1")
    /\ chunks_rows[2].chunk_id = PyStr("c2")
    /\ chunks_rows[3].chunk_id = PyStr("c1")
    /\ chunks_rows[2].INVOICE_UUID # chunks_rows[3].INVOICE_UUID
    /\ Len(line_items_rows) = 3
    /\ line_items_rows[1].SKU = PyStr("A1")
    /\ line_items_rows[2].SKU = PyStr("A1")
    /\ line_items_rows[3].SKU = PyStr("A2")

\* A row without its generated identifiers.
EraseIds(row) == [c \in DOMAIN row \ {"RUN_ID", "INVOICE_UUID"} |-> row[c]]
EraseAll(rows) == [i \in DOMAIN rows |-> EraseIds(rows[i])]

\* The four row lists that the loop makes of the list `pairs` from position
\* i on, starting from the lists in acc.
RECURSIVE BatchRows(_, _, _)
BatchRows(pairs, i, acc) ==
    IF i > Len(pairs) THEN acc
    ELSE \* evaluate the iteration once
         LET next == CHOOSE r \in {LoopBody(pairs[i].e[1], pairs[i].e[2], None, None,
                                            acc.markdown_rows, acc.chunks_rows,
                                            acc.main_rows, acc.line_items_rows)} : TRUE
         IN BatchRows(pairs, i + 1, next)

NoRows == [exc |-> "none", markdown_rows |-> <<>>, chunks_rows |-> <<>>,
           main_rows |-> <<>>, line_items_rows |-> <<>>]

\* C10, as the claim states it: every sequence of well-formed pairs, list or
\* tuple, is processed as a batch, one document per pair.
C10_AnySequenceIsBatch ==
    (/\ args.results.t \in {"list", "tuple"}
     /\ \A j \in 1..Len(args.results.e) : WellFormedPair(args.results.e[j]))
    => /\ pc # "raised"
       /\ pc \in {"loop", "done"} => results_list = args.results.e

\* C10, amended: a list, and only a list, is processed as a batch, one
\* document per element, whatever extract_result is; a tuple of pairs is
\* taken for a parse result and the call raises; a parse result with an
\* extract result is the batch of that one pair, and the returned tables
\* are, identifiers apart, the tables the loop makes of that batch.
C10_ModeByListType ==
    /\ (args.results.t = "list" /\ pc \in {"loop", "done"})
          => results_list = args.results.e
    /\ (args.results.t \notin {"list", "unbound"} /\ pc \in {"loop", "done"})
          => /\ args.extract_result # None
             /\ results_list = <<PyTuple(<<args.results, args.extract_result>>)>>
    /\ args.results.t = "tuple"
          => /\ pc \notin {"loop", "done"} \/ args.extract_result # None
             /\ pc # "done"
             /\ pc = "raised" =>
                   exc = IF args.extract_result = None
                         THEN "ValueError" ELSE "AttributeError"
    /\ pc = "done" =>
          LET expected == BatchRows(InputPairs, 1, NoRows)
          IN /\ EraseAll(invoice_summaries[1].data) = EraseAll(expected.markdown_rows)
             /\ EraseAll(invoice_summaries[2].data) = EraseAll(expected.chunks_rows)
             /\ EraseAll(invoice_summaries[3].data) = EraseAll(expected.main_rows)
             /\ EraseAll(invoice_summaries[4].data) = EraseAll(expected.line_items_rows)

C10_Witness ==
    /\ pc = "done"
    /\ args.results.t = "obj"
    /\ args.extract_result # None
    /\ results_list = <<PyTuple(<<args.results, args.extract_result>>)>>
    /\ invoice_summaries[1].nrows = 1
    /\ invoice_summaries[2].nrows >= 2
    /\ invoice_summaries[4].nrows >= 1

\* The metadata of document j, and what the claim says a row of the document
\* shows of its attribute `name`.
MetadataOf(j) == ParseOf(j).a.metadata
HasMetadata(j, name) == MetadataOf(j).t = "obj" /\ name \in DOMAIN MetadataOf(j).a
ExpectedMetadata(j, name) ==
    IF HasMetadata(j, name) THEN MetadataOf(j).a[name] ELSE PyStr("unknown")

\* C11: the rows of a document carry metadata.filename as DOCUMENT_NAME when
\* the metadata has a filename and 'unknown' otherwise, and metadata.version
\* as AGENTIC_DOC_VERSION when the metadata has a version and 'unknown'
\* otherwise, each decided on its own attribute alone; the MARKDOWN row, the
\* INVOICES_MAIN row and every line item row of the document carry both
\* values, and every chunk row carries the same DOCUMENT_NAME.
C11_MetadataFallbacks ==
    pc \in {"loop", "done"} =>
        /\ \A j \in 1..doc_idx :
              /\ markdown_rows[j].DOCUMENT_NAME = ExpectedMetadata(j, "filename")
              /\ markdown_rows[j].AGENTIC_DOC_VERSION = ExpectedMetadata(j, "version")
              /\ main_rows[j].DOCUMENT_NAME = ExpectedMetadata(j, "filename")
              /\ main_rows[j].AGENTIC_DOC_VERSION = ExpectedMetadata(j, "version")
        /\ \A p \in DOMAIN chunks_rows :
              /\ chunks_rows[p].DOCUMENT_NAME = ExpectedMetadata(DocOfChunkRow(p), "filename")
              /\ "AGENTIC_DOC_VERSION" \notin DOMAIN chunks_rows[p]
        /\ \A p \in DOMAIN line_items_rows :
              /\ line_items_rows[p].DOCUMENT_NAME
                    = ExpectedMetadata(DocOfItemRow(p), "filename")
              /\ line_items_rows[p].AGENTIC_DOC_VERSION
                    = ExpectedMetadata(DocOfItemRow(p), "version")
        /\ pc = "done" =>
              /\ invoice_summaries[1].data = markdown_rows
              /\ invoice_summaries[2].data = chunks_rows
              /\ invoice_summaries[3].data = main_rows
              /\ invoice_summaries[4].data = line_items_rows

\* A document whose metadata has a version and no filename: the name falls
\* back, the version does not, on the rows of all four tables.
C11_Witness ==
    /\ pc = "done"
    /\ doc_idx = 1
    /\ ~HasMetadata(1, "filename")
    /\ HasMetadata(1, "version")
    /\ invoice_summaries[1].data[1].DOCUMENT_NAME = PyStr("unknown")
    /\ invoice_summaries[1].data[1].AGENTIC_DOC_VERSION = PyStr("v9")
    /\ invoice_summaries[3].data[1].AGENTIC_DOC_VERSION = PyStr("v9")
    /\ invoice_summaries[2].nrows = 1
    /\ invoice_summaries[2].data[1].DOCUMENT_NAME = PyStr("unknown")
    /\ invoice_summaries[4].nrows = 1
    /\ invoice_summaries[4].data[1].DOCUMENT_NAME = PyStr("unknown")
    /\ invoice_summaries[4].data[1].AGENTIC_DOC_VERSION = PyStr("v9")

\* The steps that the claim about parse_extract_save lists, in its order.
ClaimOrder == <<"exists", "parse", "write_parse", "extract", "write_extract">>
IsClaimStep(step) == \E i \in DOMAIN ClaimOrder : ClaimOrder[i] = step.op
StepsTaken == SelectSeq(steps, IsClaimStep)
IsPrefix(s, t) == Len(s) <= Len(t) /\ \A i \in DOMAIN s : s[i] = t[i]
OpsOf(s) == [i \in DOMAIN s |-> s[i].op]
Took(op) == \E i \in DOMAIN steps : steps[i].op = op

\* The two files of the running call, and what the client answered to it.
ParseFile == "parse_" \o save_args.document_path.stem \o ".json"
ExtractFile == "extract_" \o save_args.document_path.stem \o ".json"
Wrote(name, result) ==
    /\ name \in DOMAIN files
    /\ files[name] = [t |-> "json",
                      of |-> IF "model_dump" \in DOMAIN result.a
                             THEN result.a.model_dump
                             ELSE [t |-> "str", of |-> result]]
AsAtEntry(name) ==
    /\ (name \in DOMAIN files) = (name \in DOMAIN entry.files)
    /\ name \in DOMAIN files => files[name] = entry.files[name]

\* The extract step failed: client.extract, or the evaluation of its
\* arguments, raised.
ExtractFailed == save_pc = "raised" /\ save_exc.at = "extract"

\* What C12 says of every call, apart from the extract file after a failed
\* extract: the steps run in the claim's order, a missing document raises
\* FileNotFoundError with no client call, directory or file made, a raised
\* call has run nothing after the step that raised, client.extract gets the
\* markdown of the parse result, and a returned call has done all steps,
\* written both files and returns the two results.
C12_OrderedSteps ==
    save_pc # "idle" =>
        /\ IsPrefix(OpsOf(StepsTaken), ClaimOrder)
        /\ save_args.document_path \notin ExistingDocuments =>
              /\ save_pc \in {"exists", "raised"}
              /\ save_pc = "raised" =>
                    /\ save_exc.type = "FileNotFoundError"
                    /\ OpsOf(steps) = <<"exists">>
              /\ files = entry.files
              /\ output_dir_exists = entry.dir
        /\ save_pc = "raised" =>
              /\ save_exc.type # "none"
              /\ save_ret = NoValue
              /\ ~Took("parse") => files = entry.files
              /\ ~Took("write_parse") => AsAtEntry(ParseFile)
              /\ ~Took("write_extract") => AsAtEntry(ExtractFile)
              /\ save_exc.at \in {"parse", "write_parse", "write_extract"}
                    => steps[Len(steps)].op = save_exc.at
              /\ save_exc.at \in {"schema", "extract"}
                    => OpsOf(StepsTaken) \in {<<"exists", "parse", "write_parse">>,
                                              <<"exists", "parse", "write_parse", "extract">>}
        /\ \A i \in DOMAIN steps :
              steps[i].op = "extract" =>
                 steps[i].markdown = [t |-> "BytesIO",
                                      b |-> [t |-> "bytes", utf8 |-> parse_result.a.markdown.v]]
        /\ save_pc = "returned" =>
              /\ OpsOf(StepsTaken) = ClaimOrder
              /\ save_ret = PyTuple(<<parse_result, extract_result>>)
              /\ parse_result \in ParseResponses
              /\ extract_result \in ExtractResponses
              /\ Wrote(ParseFile, parse_result)
              /\ Wrote(ExtractFile, extract_result)
              /\ save_exc.type = "none"

\* C12, as the claim states it: the steps run in order and a failure stops
\* the call, so when extract fails the parse file has been written and no
\* extract file exists.
C12_NoExtractFileAfterFailure ==
    /\ C12_OrderedSteps
    /\ ExtractFailed =>
          /\ Wrote(ParseFile, parse_result)
          /\ ExtractFile \notin DOMAIN files

\* C12, amended: the steps run in order and a failure stops the call, so
\* when extract fails the parse file has been written and the call has
\* written no extract file: there is none unless an earlier call for a
\* document of the same stem left one, which stays as it was.
C12_StepOrder ==
    /\ C12_OrderedSteps
    /\ ExtractFailed =>
          /\ Wrote(ParseFile, parse_result)
          /\ AsAtEntry(ExtractFile)

\* client.extract raised in the second call for a document: the parse file
\* is the one of this call, the extract file the one of the first call.
C12_Witness ==
    /\ save_pc = "raised"
    /\ save_exc = [type |-> "APIError", at |-> "extract"]
    /\ OpsOf(steps) = <<"exists", "mkdir", "parse", "write_parse", "extract">>
    /\ Wrote(ParseFile, parse_result)
    /\ ExtractFile \in DOMAIN entry.files
    /\ entry.files[ExtractFile].t = "json"
    /\ ParseFile \in DOMAIN entry.files
    /\ files[ParseFile] # entry.files[ParseFile]
    /\ files[ExtractFile] = entry.files[ExtractFile]

====
